---------------------------- MODULE Spec2Model ----------------------------
(***************************************************************************)
(* Task list server: the in-memory store (MemStorage), the Express route   *)
(* handlers registered by registerRoutes, and the route table in its       *)
(* registration order; and the client's Home component with its query and  *)
(* its mutations.                                                          *)
(***************************************************************************)
EXTENDS Integers, Sequences, FiniteSets, TLC

VARIABLES tasks, currentId, op, res, issued, toggle, pending,
          newTaskText, filter, editingTaskId, editingText,
          data, isLoading, fetching, mutations

asyncVars == <<toggle, pending>>

uiVars == <<newTaskText, filter, editingTaskId, editingText>>

queryVars == <<data, isLoading, fetching>>

clientVars == <<uiVars, queryVars, mutations>>

vars == <<tasks, currentId, op, res, issued, asyncVars, clientVars>>

(***************************************************************************)
(* Bounds of the model and constants of the program.                       *)
(***************************************************************************)
MaxId == 2

MaxAsyncId == 2

MaxPending == 2

MaxClientId == 2

MinTextLen == 1

MaxTextLen == 500

(***************************************************************************)
(* A task text is a string in run-length form: a sequence of runs          *)
(* [c, n], n >= 1 copies of the character c, adjacent runs differing in c. *)
(* Path segments are plain sequences of characters.                        *)
(***************************************************************************)
Run(c, n) == <<[c |-> c, n |-> n]>>

RECURSIVE Length(_)
Length(s) == IF s = <<>> THEN 0 ELSE Head(s).n + Length(Tail(s))

TextEmpty == <<>>

TextA == Run("a", 1)

TextMax == Run("x", MaxTextLen)

TextOver == Run("x", MaxTextLen + 1)

ValidTexts == {TextA, TextMax}

Texts == {TextEmpty, TextA, TextMax, TextOver}

DigitChars == <<"0", "1", "2", "3", "4", "5", "6", "7", "8", "9">>

IsDigit(c) == \E i \in 1..10 : DigitChars[i] = c

DigitVal(c) == (CHOOSE i \in 1..10 : DigitChars[i] = c) - 1

IdSeg(n) == <<DigitChars[n + 1]>>

SegCompleted == <<"c", "o", "m", "p", "l", "e", "t", "e", "d">>

SegToggleAll == <<"t", "o", "g", "g", "l", "e", "-", "a", "l", "l">>

(***************************************************************************)
(* The Map<number, Task> of MemStorage: entries in insertion order.        *)
(***************************************************************************)
MapHas(m, k) == \E i \in 1..Len(m) : m[i].key = k

MapGet(m, k) == m[CHOOSE i \in 1..Len(m) : m[i].key = k].val

MapSet(m, k, v) ==
    IF MapHas(m, k)
    THEN [i \in 1..Len(m) |-> IF m[i].key = k THEN [key |-> k, val |-> v] ELSE m[i]]
    ELSE Append(m, [key |-> k, val |-> v])

MapDelete(m, k) == SelectSeq(m, LAMBDA e : e.key # k)

MapValues(m) == [i \in 1..Len(m) |-> m[i].val]

MapKeys(m) == {m[i].key : i \in 1..Len(m)}

(***************************************************************************)
(* Array.prototype.sort((a, b) => a.id - b.id), as an insertion sort.      *)
(***************************************************************************)
RECURSIVE InsertById_desc(_, _)
InsertById_desc(t, s) ==
    IF s = <<>> THEN <<t>>
    ELSE IF t.id > Head(s).id THEN <<t>> \o s
    ELSE <<Head(s)>> \o InsertById_desc(t, Tail(s))

RECURSIVE InsertById(_, _)
InsertById(t, s) ==
    IF s = <<>> THEN <<t>>
    ELSE IF t.id < Head(s).id THEN <<t>> \o s
    ELSE <<Head(s)>> \o InsertById(t, Tail(s))

RECURSIVE SortById(_)
SortById(s) ==
    IF s = <<>> THEN <<>>
    ELSE InsertById(s[Len(s)], SortById(SubSeq(s, 1, Len(s) - 1)))

(***************************************************************************)
(* MemStorage.  A store is [tasks, currentId]; every method yields the     *)
(* store after the call and the value it returns.  Task | undefined is a   *)
(* sequence of at most one task.                                           *)
(***************************************************************************)
NewStorage == [tasks |-> <<>>, currentId |-> 1]

getTasks(st) == [st |-> st, ret |-> SortById(MapValues(st.tasks))]

getTask(st, id) ==
    [st |-> st,
     ret |-> IF MapHas(st.tasks, id) THEN <<MapGet(st.tasks, id)>> ELSE <<>>]

createTask_reuse(st, insertTask) ==
    LET id == Len(st.tasks) + 1
        task == [id |-> id,
                 text |-> insertTask.text,
                 completed |-> IF "completed" \in DOMAIN insertTask
                               THEN insertTask.completed ELSE FALSE]
    IN [st |-> [tasks |-> MapSet(st.tasks, id, task), currentId |-> st.currentId + 1],
        ret |-> task]

createTask(st, insertTask) ==
    LET id == st.currentId
        task == [id |-> id,
                 text |-> insertTask.text,
                 completed |-> IF "completed" \in DOMAIN insertTask
                               THEN insertTask.completed ELSE FALSE]
    IN [st |-> [tasks |-> MapSet(st.tasks, id, task), currentId |-> st.currentId + 1],
        ret |-> task]

Spread_keep(a, b) ==
    [k \in DOMAIN a \cup DOMAIN b |-> IF k \in DOMAIN a THEN a[k] ELSE b[k]]

Spread(a, b) ==
    [k \in DOMAIN a \cup DOMAIN b |-> IF k \in DOMAIN b THEN b[k] ELSE a[k]]

updateTask_upsert(st, id, updates) ==
    LET existingTask == IF MapHas(st.tasks, id) THEN MapGet(st.tasks, id) ELSE [id |-> id]
        updatedTask == Spread(existingTask, updates)
    IN [st |-> [st EXCEPT !.tasks = MapSet(st.tasks, id, updatedTask)],
        ret |-> IF MapHas(st.tasks, id) THEN <<updatedTask>> ELSE <<>>]

updateTask(st, id, updates) ==
    IF ~MapHas(st.tasks, id)
    THEN [st |-> st, ret |-> <<>>]
    ELSE LET updatedTask == Spread(MapGet(st.tasks, id), updates)
         IN [st |-> [st EXCEPT !.tasks = MapSet(st.tasks, id, updatedTask)],
             ret |-> <<updatedTask>>]

deleteTask_always(st, id) ==
    [st |-> [st EXCEPT !.tasks = MapDelete(st.tasks, id)], ret |-> TRUE]

deleteTask(st, id) ==
    [st |-> [st EXCEPT !.tasks = MapDelete(st.tasks, id)],
     ret |-> MapHas(st.tasks, id)]

DeleteEach_first(m, ts) ==
    IF ts = <<>> THEN m ELSE MapDelete(m, Head(ts).id)

RECURSIVE DeleteEach(_, _)
DeleteEach(m, ts) ==
    IF ts = <<>> THEN m ELSE DeleteEach(MapDelete(m, Head(ts).id), Tail(ts))

clearCompletedTasks(st) ==
    LET completedTasks == SelectSeq(MapValues(st.tasks), LAMBDA t : t.completed)
        count == Len(completedTasks)
    IN [st |-> [st EXCEPT !.tasks = DeleteEach(st.tasks, completedTasks)],
        ret |-> count]

(***************************************************************************)
(* JSON values of a request body, and the zod schemas of the shared        *)
(* schema module.  A body is a function from the keys it carries to JSON   *)
(* values; parse yields the validated data (unknown keys stripped) or the  *)
(* list of issue messages in the order of the schema's keys.               *)
(***************************************************************************)
JStr(s) == [t |-> "string", s |-> s, b |-> FALSE, n |-> 0]

JBool(b) == [t |-> "boolean", s |-> <<>>, b |-> b, n |-> 0]

JNum(n) == [t |-> "number", s |-> <<>>, b |-> FALSE, n |-> n]

Raw(k, v) == IF k = "text" THEN v.s ELSE v.b

SchemaKeys == {"text", "completed"}

Strip_passthrough(body) ==
    [k \in DOMAIN body |-> IF k \in SchemaKeys THEN Raw(k, body[k]) ELSE body[k].n]

Strip(body) == [k \in DOMAIN body \cap SchemaKeys |-> Raw(k, body[k])]

CompletedIssues(body) ==
    IF "completed" \in DOMAIN body /\ body["completed"].t # "boolean"
    THEN <<"Expected boolean, received " \o body["completed"].t>>
    ELSE <<>>

InsertTextIssues_nomax(body) ==
    IF "text" \notin DOMAIN body THEN <<"Required">>
    ELSE IF body["text"].t # "string"
         THEN <<"Expected string, received " \o body["text"].t>>
    ELSE IF Length(body["text"].s) < MinTextLen THEN <<"Task text is required">>
    ELSE <<>>

InsertTextIssues(body) ==
    IF "text" \notin DOMAIN body THEN <<"Required">>
    ELSE IF body["text"].t # "string"
         THEN <<"Expected string, received " \o body["text"].t>>
    ELSE IF Length(body["text"].s) < MinTextLen THEN <<"Task text is required">>
    ELSE IF Length(body["text"].s) > MaxTextLen THEN <<"Task text is too long">>
    ELSE <<>>

UpdateTextIssues(body) ==
    IF "text" \in DOMAIN body /\ body["text"].t # "string"
    THEN <<"Expected string, received " \o body["text"].t>>
    ELSE <<>>

insertTaskSchema(body) ==
    LET errors == InsertTextIssues(body) \o CompletedIssues(body)
    IN [ok |-> errors = <<>>, errors |-> errors, data |-> Strip(body)]

updateTaskSchema(body) ==
    LET errors == UpdateTextIssues(body) \o CompletedIssues(body)
    IN [ok |-> errors = <<>>, errors |-> errors, data |-> Strip(body)]

(***************************************************************************)
(* parseInt(req.params.id): an optional sign, then the longest prefix of   *)
(* decimal digits; NaN when there is no digit.                             *)
(***************************************************************************)
RECURSIVE DigitsPrefix(_)
DigitsPrefix(s) ==
    IF s # <<>> /\ IsDigit(Head(s)) THEN <<Head(s)>> \o DigitsPrefix(Tail(s)) ELSE <<>>

RECURSIVE DigitsValue(_)
DigitsValue(d) ==
    IF d = <<>> THEN 0
    ELSE 10 * DigitsValue(SubSeq(d, 1, Len(d) - 1)) + DigitVal(d[Len(d)])

parseInt(s) ==
    LET neg == s # <<>> /\ Head(s) = "-"
        rest == IF s # <<>> /\ Head(s) \in {"-", "+"} THEN Tail(s) ELSE s
        d == DigitsPrefix(rest)
    IN [nan |-> d = <<>>,
        val |-> IF neg THEN 0 - DigitsValue(d) ELSE DigitsValue(d)]

(***************************************************************************)
(* Responses.  One record shape for every response body: an array of       *)
(* tasks, one task, {message}, {deletedCount} or no body.                  *)
(***************************************************************************)
NoRes == [status |-> 0, kind |-> "none", tasks |-> <<>>, count |-> 0,
          flag |-> FALSE, message |-> ""]

JsonArray(status, ts) == [NoRes EXCEPT !.status = status, !.kind = "array", !.tasks = ts]

JsonTask(status, t) == [NoRes EXCEPT !.status = status, !.kind = "task", !.tasks = <<t>>]

JsonMessage(status, m) == [NoRes EXCEPT !.status = status, !.kind = "message", !.message = m]

JsonCount(status, n) == [NoRes EXCEPT !.status = status, !.kind = "count", !.count = n]

SendEmpty(status) == [NoRes EXCEPT !.status = status, !.kind = "empty"]

(***************************************************************************)
(* The route handlers of registerRoutes.  Each yields the store after the  *)
(* request and the response sent.                                          *)
(***************************************************************************)
GetTasksHandler(st) ==
    [st |-> st, res |-> JsonArray(200, getTasks(st).ret)]

PostTaskHandler(st, body) ==
    LET parsed == insertTaskSchema(body)
        c == createTask(st, parsed.data)
    IN IF ~parsed.ok
       THEN [st |-> st, res |-> JsonMessage(400, parsed.errors[1])]
       ELSE [st |-> c.st, res |-> JsonTask(201, c.ret)]

PutTaskHandler_lookupFirst(st, seg, body) ==
    LET id == parseInt(seg)
        parsed == updateTaskSchema(body)
        u == updateTask(st, id.val, parsed.data)
    IN IF id.nan THEN [st |-> st, res |-> JsonMessage(400, "Invalid task ID")]
       ELSE IF ~MapHas(st.tasks, id.val)
            THEN [st |-> st, res |-> JsonMessage(404, "Task not found")]
       ELSE IF ~parsed.ok THEN [st |-> st, res |-> JsonMessage(400, parsed.errors[1])]
       ELSE [st |-> u.st, res |-> JsonTask(200, u.ret[1])]

PutTaskHandler(st, seg, body) ==
    LET id == parseInt(seg)
        parsed == updateTaskSchema(body)
        u == updateTask(st, id.val, parsed.data)
    IN IF id.nan THEN [st |-> st, res |-> JsonMessage(400, "Invalid task ID")]
       ELSE IF ~parsed.ok THEN [st |-> st, res |-> JsonMessage(400, parsed.errors[1])]
       ELSE IF u.ret = <<>> THEN [st |-> u.st, res |-> JsonMessage(404, "Task not found")]
       ELSE [st |-> u.st, res |-> JsonTask(200, u.ret[1])]

DeleteTaskHandler(st, seg) ==
    LET id == parseInt(seg)
        d == deleteTask(st, id.val)
    IN IF id.nan THEN [st |-> st, res |-> JsonMessage(400, "Invalid task ID")]
       ELSE IF ~d.ret THEN [st |-> d.st, res |-> JsonMessage(404, "Task not found")]
       ELSE [st |-> d.st, res |-> SendEmpty(204)]

ClearCompletedHandler(st) ==
    LET c == clearCompletedTasks(st)
    IN [st |-> c.st, res |-> JsonCount(200, c.ret)]

ToggleIter_pushAll(st, task, newCompletedStatus, updatedTasks) ==
    LET u == updateTask(st, task.id, [completed |-> newCompletedStatus])
    IN [st |-> u.st,
        ret |-> updatedTasks \o <<[task EXCEPT !.completed = newCompletedStatus]>>]

ToggleIter(st, task, newCompletedStatus, updatedTasks) ==
    LET u == updateTask(st, task.id, [completed |-> newCompletedStatus])
    IN [st |-> u.st, ret |-> updatedTasks \o u.ret]

RECURSIVE ToggleLoop(_, _, _, _)
ToggleLoop(st, ts, newCompletedStatus, updatedTasks) ==
    IF ts = <<>> THEN [st |-> st, ret |-> updatedTasks]
    ELSE LET i == ToggleIter(st, Head(ts), newCompletedStatus, updatedTasks)
         IN ToggleLoop(i.st, Tail(ts), newCompletedStatus, i.ret)

ToggleAllHandler_some(st) ==
    LET ts == getTasks(st).ret
        allCompleted == \E i \in 1..Len(ts) : ts[i].completed
        newCompletedStatus == ~allCompleted
        l == ToggleLoop(st, ts, newCompletedStatus, <<>>)
    IN [st |-> l.st, res |-> JsonArray(200, l.ret)]

ToggleAllHandler(st) ==
    LET ts == getTasks(st).ret
        allCompleted == \A i \in 1..Len(ts) : ts[i].completed
        newCompletedStatus == ~allCompleted
        l == ToggleLoop(st, ts, newCompletedStatus, <<>>)
    IN [st |-> l.st, res |-> JsonArray(200, l.ret)]

(***************************************************************************)
(* The route table, in registration order.  A path is the list of the      *)
(* segments after /api/tasks; a request goes to the first route whose      *)
(* method and pattern match, and that handler sends the response.          *)
(***************************************************************************)
IdParam == <<":", "i", "d">>

Routes ==
    << [method |-> "GET",    pattern |-> <<>>,             handler |-> "getTasks"],
       [method |-> "POST",   pattern |-> <<>>,             handler |-> "postTask"],
       [method |-> "PUT",    pattern |-> <<IdParam>>,      handler |-> "putTask"],
       [method |-> "DELETE", pattern |-> <<IdParam>>,      handler |-> "deleteTask"],
       [method |-> "DELETE", pattern |-> <<SegCompleted>>, handler |-> "clearCompleted"],
       [method |-> "PUT",    pattern |-> <<SegToggleAll>>, handler |-> "toggleAll"] >>

MatchPath(pattern, path) ==
    /\ Len(pattern) = Len(path)
    /\ \A i \in 1..Len(pattern) : Head(pattern[i]) = ":" \/ pattern[i] = path[i]

Matches(r, method, path) == r.method = method /\ MatchPath(r.pattern, path)

Dispatch(method, path) ==
    LET first == CHOOSE i \in 1..Len(Routes) :
                    /\ Matches(Routes[i], method, path)
                    /\ \A j \in 1..(i - 1) : ~Matches(Routes[j], method, path)
    IN Routes[first].handler

Handle(handler, st, path, body) ==
    CASE handler = "getTasks" -> GetTasksHandler(st)
      [] handler = "postTask" -> PostTaskHandler(st, body)
      [] handler = "putTask" -> PutTaskHandler(st, path[1], body)
      [] handler = "deleteTask" -> DeleteTaskHandler(st, path[1])
      [] handler = "clearCompleted" -> ClearCompletedHandler(st)
      [] handler = "toggleAll" -> ToggleAllHandler(st)

(***************************************************************************)
(* Requests and calls drawn by the environment.                            *)
(***************************************************************************)
IntSegs == {IdSeg(n) : n \in 1..(MaxId + 1)} \cup {<<"1", "a">>}

WordSegs == {<<"a">>, SegCompleted, SegToggleAll}

DecimalSegs == {<<"1", ".", "5">>}

Segs == IntSegs \cup WordSegs \cup DecimalSegs

Field(k, vs) == {[x \in {k} |-> v] : v \in vs} \cup {<<>>}

BodiesWith(texts) ==
    Field("text", {JStr(x) : x \in texts} \cup {JNum(7)})
      \cup Field("completed", {JBool(TRUE), JBool(FALSE), JStr(TextA)})
      \cup {[text |-> JStr(TextA), completed |-> JBool(TRUE)],
            [text |-> JStr(TextEmpty), completed |-> JNum(7)],
            [text |-> JStr(TextA), id |-> JNum(9)],
            [completed |-> JBool(TRUE), id |-> JNum(9)]}

Bodies == BodiesWith(Texts)

PutBodies == BodiesWith({TextEmpty, TextA, TextMax})

PutRequests ==
    (IntSegs \X PutBodies)
        \cup (WordSegs \X {<<>>, [completed |-> JBool(TRUE)], [completed |-> JStr(TextA)]})

Ids == 0..(MaxId + 1)

Updates ==
    {Spread(t, c) : t \in Field("text", ValidTexts), c \in Field("completed", BOOLEAN)}

InsertTasks == {u \in Updates : "text" \in DOMAIN u}

(***************************************************************************)
(* State: the store singleton, the last request or call made (op), the     *)
(* response or return value it got (res), and the ids createTask has       *)
(* returned so far (issued).                                               *)
(***************************************************************************)
Store == [tasks |-> tasks, currentId |-> currentId]

NoOp == [layer |-> "init", name |-> "", path |-> <<>>, id |-> 0, body |-> <<>>]

NoToggle == [pc |-> "idle", ts |-> <<>>, done |-> 0, newCompletedStatus |-> FALSE,
             updatedTasks |-> <<>>, events |-> {}]

NoTask == 0

Init ==
    /\ tasks = NewStorage.tasks
    /\ currentId = NewStorage.currentId
    /\ op = NoOp
    /\ res = NoRes
    /\ issued = {}
    /\ toggle = NoToggle
    /\ pending = {}
    /\ newTaskText = TextEmpty
    /\ filter = "all"
    /\ editingTaskId = NoTask
    /\ editingText = TextEmpty
    /\ data = <<>>
    /\ isLoading = TRUE
    /\ fetching = TRUE
    /\ mutations = {}

Created(r) == IF r.kind = "task" /\ r.status \in {0, 201} THEN {r.tasks[1].id} ELSE {}

Effect(o, r) ==
    /\ tasks' = r.st.tasks
    /\ currentId' = r.st.currentId
    /\ issued' = issued \cup (IF o.name \in {"POST", "postTask", "createTask"}
                              THEN Created(r.res) ELSE {})

Step(o, r) ==
    /\ Effect(o, r)
    /\ op' = o
    /\ res' = r.res
    /\ UNCHANGED <<asyncVars, clientVars>>

(***************************************************************************)
(* HTTP requests, routed through the route table.                          *)
(***************************************************************************)
HttpRequest(method, path, body) ==
    LET handler == Dispatch(method, path)
    IN /\ handler = "postTask" => currentId <= MaxId
       /\ \E r \in {Handle(handler, Store, path, body)} :
              Step([NoOp EXCEPT !.layer = "http", !.name = method, !.path = path,
                                !.body = body], r)

HttpGet == HttpRequest("GET", <<>>, <<>>)

HttpPost == \E body \in Bodies : HttpRequest("POST", <<>>, body)

HttpPut == \E r \in PutRequests : HttpRequest("PUT", <<r[1]>>, r[2])

HttpDelete == \E seg \in Segs : HttpRequest("DELETE", <<seg>>, <<>>)

Next == HttpGet \/ HttpPost \/ HttpPut \/ HttpDelete

Spec == Init /\ [][Next]_vars

(***************************************************************************)
(* The route handlers called directly, past the route table.               *)
(***************************************************************************)
HandlerCall(handler, path, body) ==
    /\ handler = "postTask" => currentId <= MaxId
    /\ \E r \in {Handle(handler, Store, path, body)} :
           Step([NoOp EXCEPT !.layer = "handler", !.name = handler, !.path = path,
                             !.body = body], r)

CallGetTasks == HandlerCall("getTasks", <<>>, <<>>)

CallPostTask == \E body \in Bodies : HandlerCall("postTask", <<>>, body)

CallPutTask == \E r \in PutRequests : HandlerCall("putTask", <<r[1]>>, r[2])

CallDeleteTask == \E seg \in Segs : HandlerCall("deleteTask", <<seg>>, <<>>)

CallClearCompleted == HandlerCall("clearCompleted", <<SegCompleted>>, <<>>)

CallToggleAll == HandlerCall("toggleAll", <<SegToggleAll>>, <<>>)

NextHandlers ==
    \/ CallGetTasks
    \/ CallPostTask
    \/ CallPutTask
    \/ CallDeleteTask
    \/ CallClearCompleted
    \/ CallToggleAll

SpecHandlers == Init /\ [][NextHandlers]_vars

(***************************************************************************)
(* The methods of the store called directly.  The value returned is kept   *)
(* in res with status 0.                                                   *)
(***************************************************************************)
RetUndefined == [NoRes EXCEPT !.kind = "undefined"]

RetBoolean(b) == [NoRes EXCEPT !.kind = "boolean", !.flag = b]

RetTask(ret) == IF ret = <<>> THEN RetUndefined ELSE JsonTask(0, ret[1])

StoreCall(name, id, arg, st, r) ==
    Step([NoOp EXCEPT !.layer = "store", !.name = name, !.id = id, !.body = arg],
         [st |-> st, res |-> r])

StoreGetTasks ==
    LET c == getTasks(Store) IN StoreCall("getTasks", 0, <<>>, c.st, JsonArray(0, c.ret))

StoreGetTask ==
    \E id \in Ids :
        LET c == getTask(Store, id) IN StoreCall("getTask", id, <<>>, c.st, RetTask(c.ret))

StoreCreateTask ==
    \E insertTask \in InsertTasks :
        LET c == createTask(Store, insertTask)
        IN /\ currentId <= MaxId
           /\ StoreCall("createTask", 0, insertTask, c.st, JsonTask(0, c.ret))

StoreUpdateTask ==
    \E id \in Ids, updates \in Updates :
        LET c == updateTask(Store, id, updates)
        IN StoreCall("updateTask", id, updates, c.st, RetTask(c.ret))

StoreDeleteTask ==
    \E id \in Ids :
        LET c == deleteTask(Store, id)
        IN StoreCall("deleteTask", id, <<>>, c.st, RetBoolean(c.ret))

StoreClearCompletedTasks ==
    LET c == clearCompletedTasks(Store)
    IN StoreCall("clearCompletedTasks", 0, <<>>, c.st, JsonCount(0, c.ret))

NextStore ==
    \/ StoreGetTasks
    \/ StoreGetTask
    \/ StoreCreateTask
    \/ StoreUpdateTask
    \/ StoreDeleteTask
    \/ StoreClearCompletedTasks

SpecStore == Init /\ [][NextStore]_vars

(***************************************************************************)
(* The handlers as async functions.  A handler runs up to its next await   *)
(* in one step; the store method it awaits has run by then, and the rest   *)
(* of the handler runs in a later step, other handlers' steps in between.  *)
(* The handlers with one await (pending) have only their response left to  *)
(* send; toggle-all (toggle) awaits getTasks and then each updateTask of   *)
(* its loop.  toggle.events lists the store changes other handlers made    *)
(* while toggle-all was running.  One toggle-all request is followed from  *)
(* its start to its response.  SpecAsync interleaves creates and updates,  *)
(* SpecToggle interleaves creates and deletes with a toggle-all.           *)
(***************************************************************************)
AsyncPutRequests ==
    {IdSeg(n) : n \in 1..MaxAsyncId}
        \X {[text |-> JStr(TextMax)], [completed |-> JBool(TRUE)]}

AsyncPostBodies == {[text |-> JStr(TextA)]}

AsyncDeleteSegs == {IdSeg(n) : n \in 1..MaxAsyncId}

AsyncCall(handler, path, body) ==
    LET o == [NoOp EXCEPT !.layer = "async", !.name = handler, !.path = path,
                          !.body = body]
    IN /\ Cardinality(pending) < MaxPending
       /\ toggle.pc # "done"
       /\ handler = "postTask" => currentId <= MaxAsyncId
       /\ \E r \in {Handle(handler, Store, path, body)} :
             LET id == IF handler = "postTask" THEN r.res.tasks[1].id
                       ELSE parseInt(path[1]).val
             IN /\ Effect(o, r)
                /\ toggle' = IF toggle.pc = "run" /\ r.st.tasks # tasks
                             THEN [toggle EXCEPT !.events =
                                     @ \cup {[kind |-> handler, id |-> id,
                                              done |-> toggle.done]}]
                             ELSE toggle
                /\ IF r.res.status = 400
                   THEN /\ op' = o
                        /\ res' = r.res
                        /\ UNCHANGED pending
                   ELSE /\ [op |-> o, res |-> r.res] \notin pending
                        /\ pending' = pending \cup {[op |-> o, res |-> r.res]}
                        /\ UNCHANGED <<op, res>>
       /\ UNCHANGED clientVars

AsyncPost == \E body \in AsyncPostBodies : AsyncCall("postTask", <<>>, body)

AsyncPut == \E r \in AsyncPutRequests : AsyncCall("putTask", <<r[1]>>, r[2])

AsyncDelete == \E seg \in AsyncDeleteSegs : AsyncCall("deleteTask", <<seg>>, <<>>)

AsyncRespond ==
    \E p \in pending :
        /\ op' = p.op
        /\ res' = p.res
        /\ pending' = pending \ {p}
        /\ UNCHANGED <<tasks, currentId, issued, toggle, clientVars>>

ToggleStart ==
    /\ toggle.pc = "idle"
    /\ LET ts == getTasks(Store).ret
           allCompleted == \A i \in 1..Len(ts) : ts[i].completed
       IN toggle' = [pc |-> "run", ts |-> ts, done |-> 0,
                     newCompletedStatus |-> ~allCompleted,
                     updatedTasks |-> <<>>, events |-> {}]
    /\ UNCHANGED <<tasks, currentId, op, res, issued, pending, clientVars>>

ToggleResume ==
    /\ toggle.pc = "run"
    /\ toggle.done < Len(toggle.ts)
    /\ \E i \in {ToggleIter(Store, toggle.ts[toggle.done + 1],
                            toggle.newCompletedStatus, toggle.updatedTasks)} :
          /\ tasks' = i.st.tasks
          /\ toggle' = [toggle EXCEPT !.done = @ + 1, !.updatedTasks = i.ret]
    /\ UNCHANGED <<currentId, op, res, issued, pending, clientVars>>

ToggleRespond ==
    /\ toggle.pc = "run"
    /\ toggle.done = Len(toggle.ts)
    /\ op' = [NoOp EXCEPT !.layer = "async", !.name = "toggleAll",
                          !.path = <<SegToggleAll>>]
    /\ res' = JsonArray(200, toggle.updatedTasks)
    /\ toggle' = [toggle EXCEPT !.pc = "done"]
    /\ UNCHANGED <<tasks, currentId, issued, pending, clientVars>>

NextAsync ==
    \/ AsyncPost
    \/ AsyncPut
    \/ AsyncRespond

SpecAsync == Init /\ [][NextAsync]_vars

NextToggle ==
    \/ AsyncPost
    \/ AsyncDelete
    \/ AsyncRespond
    \/ ToggleStart
    \/ ToggleResume
    \/ ToggleRespond

SpecToggle == Init /\ [][NextToggle]_vars

(***************************************************************************)
(* The client's Home component.  Strings typed by the user may carry       *)
(* spaces; trim removes the leading and the trailing run of spaces.        *)
(***************************************************************************)
TextB == Run("b", 1)

Spaces(n) == Run(" ", n)

trim_none(s) == s

trim(s) ==
    LET a == IF s # <<>> /\ Head(s).c = " " THEN Tail(s) ELSE s
    IN IF a # <<>> /\ a[Len(a)].c = " " THEN SubSeq(a, 1, Len(a) - 1) ELSE a

ComposeTexts ==
    {TextEmpty, Spaces(2), Spaces(1) \o TextA \o Spaces(1), Spaces(1) \o TextOver}

EditTexts == {TextEmpty, Spaces(1), Spaces(1) \o TextB}

Filters == {"all", "active", "completed"}

filteredTasks_all ==
    SelectSeq(data, LAMBDA task : TRUE)

filteredTasks ==
    SelectSeq(data, LAMBDA task :
        IF filter = "active" THEN ~task.completed
        ELSE IF filter = "completed" THEN task.completed
        ELSE TRUE)

totalTasks == Len(data)

completedTasks_total == Len(data)

completedTasks == Len(SelectSeq(data, LAMBDA task : task.completed))

remainingTasks == totalTasks - completedTasks

Rendered == {filteredTasks[i] : i \in 1..Len(filteredTasks)}

(***************************************************************************)
(* useMutation: mutate starts a request; isPending while it is in flight.  *)
(* The user starts a mutation of a kind when the previous one of that kind *)
(* has settled.  The request is served by the route table and its response *)
(* comes back in one step (MutationSettles); apiRequest resolves on a 2xx  *)
(* status and throws on any other, so onSuccess or onError runs.  The      *)
(* query's fetch is served the same way (FetchSettles).                    *)
(***************************************************************************)
isPending(kind) == \E m \in mutations : m.kind = kind

Request(kind, method, path, body) ==
    [kind |-> kind, method |-> method, path |-> path, body |-> body]

mutate(m) ==
    /\ ~isPending(m.kind)
    /\ m \notin mutations
    /\ mutations' = mutations \cup {m}

ApiOk(status) == status \in 200..299

SetNewTaskText ==
    /\ ~isLoading
    /\ \E text \in ComposeTexts : newTaskText' = text
    /\ UNCHANGED <<tasks, currentId, op, res, issued, asyncVars, filter,
                   editingTaskId, editingText, queryVars, mutations>>

handleAddTask_noTrim ==
    /\ ~isLoading
    /\ ~isPending("create")
    /\ newTaskText # TextEmpty
    /\ currentId <= MaxClientId
    /\ mutate(Request("create", "POST", <<>>,
                      [text |-> JStr(newTaskText), completed |-> JBool(FALSE)]))
    /\ UNCHANGED <<tasks, currentId, op, res, issued, asyncVars, uiVars, queryVars>>

handleAddTask ==
    /\ ~isLoading
    /\ ~isPending("create")
    /\ newTaskText # TextEmpty
    /\ LET text == trim(newTaskText)
       IN IF text # TextEmpty
          THEN /\ currentId <= MaxClientId
               /\ mutate(Request("create", "POST", <<>>,
                                 [text |-> JStr(text), completed |-> JBool(FALSE)]))
          ELSE UNCHANGED mutations
    /\ UNCHANGED <<tasks, currentId, op, res, issued, asyncVars, uiVars, queryVars>>

handleToggleTask ==
    /\ ~isLoading
    /\ \E task \in Rendered :
          mutate(Request("update", "PUT", <<IdSeg(task.id)>>,
                         [completed |-> JBool(~task.completed)]))
    /\ UNCHANGED <<tasks, currentId, op, res, issued, asyncVars, uiVars, queryVars>>

handleEditTask ==
    /\ ~isLoading
    /\ \E task \in Rendered :
          /\ editingTaskId' = task.id
          /\ editingText' = task.text
    /\ UNCHANGED <<tasks, currentId, op, res, issued, asyncVars, newTaskText,
                   filter, queryVars, mutations>>

EditInputShown == ~isLoading /\ \E task \in Rendered : task.id = editingTaskId

SetEditingText ==
    /\ EditInputShown
    /\ \E text \in EditTexts : editingText' = text
    /\ UNCHANGED <<tasks, currentId, op, res, issued, asyncVars, newTaskText,
                   filter, editingTaskId, queryVars, mutations>>

handleSaveEdit(taskId) ==
    LET text == trim(editingText)
    IN IF text # TextEmpty
       THEN mutate(Request("update", "PUT", <<IdSeg(taskId)>>, [text |-> JStr(text)]))
       ELSE UNCHANGED mutations

EditBlur ==
    /\ EditInputShown
    /\ handleSaveEdit(editingTaskId)
    /\ UNCHANGED <<tasks, currentId, op, res, issued, asyncVars, uiVars, queryVars>>

EditKeyDown ==
    /\ EditInputShown
    /\ \E key \in {"Enter", "Escape"} :
          IF key = "Enter"
          THEN /\ handleSaveEdit(editingTaskId)
               /\ UNCHANGED <<editingTaskId, editingText>>
          ELSE /\ editingTaskId' = NoTask
               /\ editingText' = TextEmpty
               /\ UNCHANGED mutations
    /\ UNCHANGED <<tasks, currentId, op, res, issued, asyncVars, newTaskText,
                   filter, queryVars>>

handleDeleteTask ==
    /\ ~isLoading
    /\ \E task \in Rendered :
          mutate(Request("delete", "DELETE", <<IdSeg(task.id)>>, <<>>))
    /\ UNCHANGED <<tasks, currentId, op, res, issued, asyncVars, uiVars, queryVars>>

SetFilter ==
    /\ ~isLoading
    /\ \E key \in Filters : filter' = key
    /\ UNCHANGED <<tasks, currentId, op, res, issued, asyncVars, newTaskText,
                   editingTaskId, editingText, queryVars, mutations>>

ClearCompletedClick ==
    /\ ~isLoading
    /\ ~(isPending("clearCompleted") \/ completedTasks = 0)
    /\ mutate(Request("clearCompleted", "DELETE", <<SegCompleted>>, <<>>))
    /\ UNCHANGED <<tasks, currentId, op, res, issued, asyncVars, uiVars, queryVars>>

ToggleAllClick ==
    /\ ~isLoading
    /\ ~(isPending("toggleAll") \/ totalTasks = 0)
    /\ mutate(Request("toggleAll", "PUT", <<SegToggleAll>>, <<>>))
    /\ UNCHANGED <<tasks, currentId, op, res, issued, asyncVars, uiVars, queryVars>>

onSuccess_noInvalidate(kind) ==
    /\ fetching' = fetching
    /\ newTaskText' = IF kind = "create" THEN TextEmpty ELSE newTaskText
    /\ editingTaskId' = IF kind = "update" THEN NoTask ELSE editingTaskId
    /\ editingText' = IF kind = "update" THEN TextEmpty ELSE editingText

onSuccess(kind) ==
    /\ fetching' = TRUE
    /\ newTaskText' = IF kind = "create" THEN TextEmpty ELSE newTaskText
    /\ editingTaskId' = IF kind = "update" THEN NoTask ELSE editingTaskId
    /\ editingText' = IF kind = "update" THEN TextEmpty ELSE editingText

onError_reset(kind) ==
    /\ UNCHANGED <<fetching, newTaskText>>
    /\ editingTaskId' = IF kind = "update" THEN NoTask ELSE editingTaskId
    /\ editingText' = IF kind = "update" THEN TextEmpty ELSE editingText

onError(kind) == UNCHANGED <<fetching, newTaskText, editingTaskId, editingText>>

Answer(m) == Handle(Dispatch(m.method, m.path), Store, m.path, m.body)

MutationSettles ==
    \E m \in mutations :
        LET o == [NoOp EXCEPT !.layer = "http", !.name = m.method, !.path = m.path,
                              !.body = m.body]
        IN \E r \in {Answer(m)} :
              /\ Effect(o, r)
              /\ mutations' = mutations \ {m}
              /\ IF ApiOk(r.res.status) THEN onSuccess(m.kind) ELSE onError(m.kind)
              /\ UNCHANGED <<op, res, asyncVars, filter, data, isLoading>>

FetchSettles ==
    /\ fetching
    /\ \E r \in {Handle(Dispatch("GET", <<>>), Store, <<>>, <<>>)} :
          /\ data' = r.res.tasks
          /\ fetching' = FALSE
          /\ isLoading' = FALSE
    /\ UNCHANGED <<tasks, currentId, op, res, issued, asyncVars, uiVars, mutations>>

(***************************************************************************)
(* Four uses of the page.  SpecClient: the user composes, toggles and      *)
(* deletes tasks, filters the list and uses the two footer buttons.        *)
(* SpecEdit: the user composes tasks and edits their text.  SpecView: the  *)
(* user composes and toggles tasks, opens and leaves the edit input, and   *)
(* filters the list.  SpecUpdate: the user composes, toggles and deletes   *)
(* tasks, and opens and leaves the edit input.                             *)
(***************************************************************************)
NextClient ==
    \/ SetNewTaskText
    \/ handleAddTask
    \/ handleToggleTask
    \/ handleDeleteTask
    \/ SetFilter
    \/ ClearCompletedClick
    \/ ToggleAllClick
    \/ MutationSettles
    \/ FetchSettles

SpecClient == Init /\ [][NextClient]_vars

NextEdit ==
    \/ SetNewTaskText
    \/ handleAddTask
    \/ handleEditTask
    \/ SetEditingText
    \/ EditBlur
    \/ EditKeyDown
    \/ SetFilter
    \/ MutationSettles
    \/ FetchSettles

SpecEdit == Init /\ [][NextEdit]_vars

NextView ==
    \/ SetNewTaskText
    \/ handleAddTask
    \/ handleToggleTask
    \/ handleEditTask
    \/ EditKeyDown
    \/ SetFilter
    \/ MutationSettles
    \/ FetchSettles

SpecView == Init /\ [][NextView]_vars

NextUpdate ==
    \/ SetNewTaskText
    \/ handleAddTask
    \/ handleToggleTask
    \/ handleEditTask
    \/ EditKeyDown
    \/ handleDeleteTask
    \/ MutationSettles
    \/ FetchSettles

SpecUpdate == Init /\ [][NextUpdate]_vars

(***************************************************************************)
(* Vocabulary of the properties.                                           *)
(***************************************************************************)
IsHttp(o, method) == o.layer = "http" /\ o.name = method

IsStore(o, name) == o.layer = "store" /\ o.name = name

CompletedAt(m) == {i \in 1..Len(m) : m[i].val.completed}

Without(m, k) == SelectSeq(m, LAMBDA e : e.key # k)

WellTyped(body) ==
    /\ "text" \in DOMAIN body => body["text"].t = "string"
    /\ "completed" \in DOMAIN body => body["completed"].t = "boolean"

BadInsertText(body) ==
    \/ "text" \notin DOMAIN body
    \/ /\ body["text"].t = "string"
       /\ Length(body["text"].s) \notin MinTextLen..MaxTextLen

(***************************************************************************)
(* C1. Every id createTask returns is greater than every id createTask     *)
(* returned before, the first one being 1, whatever was updated, deleted   *)
(* or cleared in between: no id is ever issued twice.                      *)
(***************************************************************************)
C1_CreateIdsIncrease ==
    [][IsStore(op', "createTask") =>
         /\ res'.kind = "task"
         /\ \A j \in issued : res'.tasks[1].id > j
         /\ issued = {} => res'.tasks[1].id = 1
         /\ MapKeys(tasks') = MapKeys(tasks) \cup {res'.tasks[1].id}]_vars

C1_Witness ==
    /\ IsStore(op, "createTask")
    /\ res.tasks[1].id = 2
    /\ MapKeys(tasks) = {2}

(***************************************************************************)
(* C2. Through the HTTP API every stored task has a text of 1 to 500       *)
(* characters.                                                             *)
(***************************************************************************)
C2_StoredTextInRange ==
    \A i \in 1..Len(tasks) : Length(tasks[i].val.text) \in MinTextLen..MaxTextLen

(***************************************************************************)
(* C3. DELETE /api/tasks/completed is answered 200 with deletedCount equal *)
(* to the number of completed tasks, and no completed task remains.        *)
(***************************************************************************)
C3_ClearCompletedRoute ==
    [][(IsHttp(op', "DELETE") /\ op'.path = <<SegCompleted>>) =>
         /\ res'.status = 200
         /\ res'.kind = "count"
         /\ res'.count = Cardinality(CompletedAt(tasks))
         /\ CompletedAt(tasks') = {}]_vars

(***************************************************************************)
(* C4. PUT /api/tasks/toggle-all on an empty store is answered 200 with an *)
(* empty array and leaves the store empty.                                 *)
(***************************************************************************)
C4_ToggleAllRouteEmpty ==
    [][(IsHttp(op', "PUT") /\ op'.path = <<SegToggleAll>> /\ tasks = <<>>) =>
         /\ res'.status = 200
         /\ res'.kind = "array"
         /\ res'.tasks = <<>>
         /\ tasks' = <<>>]_vars

(***************************************************************************)
(* C5. The toggle-all handler, run to the end, sets completed of every     *)
(* task to the negation of "every task was completed", keeps ids, texts,   *)
(* the set of tasks and the id counter; on a mixed store all tasks are     *)
(* completed after it, and after a second run none is.                     *)
(***************************************************************************)
C5_ToggleAll ==
    [][(op'.layer = "handler" /\ op'.name = "toggleAll") =>
         LET allCompleted == CompletedAt(tasks) = 1..Len(tasks)
         IN /\ res'.status = 200
            /\ Len(tasks') = Len(tasks)
            /\ \A i \in 1..Len(tasks) :
                  /\ tasks'[i].key = tasks[i].key
                  /\ tasks'[i].val = [tasks[i].val EXCEPT !.completed = ~allCompleted]
            /\ currentId' = currentId
            /\ ~allCompleted => CompletedAt(tasks') = 1..Len(tasks)
            /\ (op.name = "toggleAll" /\ allCompleted) => CompletedAt(tasks') = {}]_vars

C5_Witness ==
    /\ op.layer = "handler"
    /\ op.name = "toggleAll"
    /\ Len(tasks) = 2
    /\ Len(res.tasks) = 2
    /\ CompletedAt(tasks) = {}

(***************************************************************************)
(* C6. POST /api/tasks with a text that is missing, empty or longer than   *)
(* 500 characters is answered 400 and changes neither the tasks nor the id *)
(* counter; a create that succeeds gets the counter's value as its id.     *)
(***************************************************************************)
C6_InvalidCreateRejected ==
    [][IsHttp(op', "POST") =>
         /\ BadInsertText(op'.body) =>
               /\ res'.status = 400
               /\ tasks' = tasks
               /\ currentId' = currentId
         /\ res'.status = 201 => res'.tasks[1].id = currentId]_vars

C6_Witness ==
    /\ IsHttp(op, "POST")
    /\ op.body = [text |-> JStr(TextOver)]
    /\ res.status = 400
    /\ Len(tasks) = 1
    /\ currentId = 2

(***************************************************************************)
(* C7. A PUT /api/tasks/:id with a well-typed body for an id that is not   *)
(* in the store (never assigned, or deleted) is answered 404: updateTask   *)
(* found nothing, and the tasks and the id counter are as they were; no    *)
(* record is created.                                                      *)
(***************************************************************************)
C7_UpdateUnknownId ==
    [][IsHttp(op', "PUT") =>
         \A n \in 1..(MaxId + 1) :
            (op'.path = <<IdSeg(n)>> /\ WellTyped(op'.body) /\ ~MapHas(tasks, n)) =>
                /\ res'.status = 404
                /\ tasks' = tasks
                /\ currentId' = currentId]_vars

C7_Witness ==
    /\ IsHttp(op, "PUT")
    /\ op.path = <<IdSeg(1)>>
    /\ res.status = 404
    /\ MapKeys(tasks) = {2}

(***************************************************************************)
(* C8. A successful update changes, on the task with that id only, the     *)
(* fields its partial carries: a field left out keeps its value, the id    *)
(* of the task stays the key it is stored under, and every other task is   *)
(* as before.                                                              *)
(***************************************************************************)
UpdatedOnly(old, new, id, hasText, text, hasCompleted, completed) ==
    /\ Len(new) = Len(old)
    /\ \A i \in 1..Len(old) :
          /\ new[i].key = old[i].key
          /\ new[i].val.id = new[i].key
          /\ old[i].key # id => new[i] = old[i]
          /\ old[i].key = id =>
                /\ new[i].val.text = IF hasText THEN text ELSE old[i].val.text
                /\ new[i].val.completed =
                      IF hasCompleted THEN completed ELSE old[i].val.completed
                /\ DOMAIN new[i].val = {"id", "text", "completed"}

C8_UpdateFrame ==
    [][IsHttp(op', "PUT") =>
         \A n \in 1..(MaxId + 1) :
            (op'.path = <<IdSeg(n)>> /\ res'.status = 200) =>
                /\ MapHas(tasks, n)
                /\ res'.tasks[1] = MapGet(tasks', n)
                /\ currentId' = currentId
                /\ UpdatedOnly(tasks, tasks', n,
                               "text" \in DOMAIN op'.body,
                               IF "text" \in DOMAIN op'.body
                               THEN op'.body["text"].s ELSE <<>>,
                               "completed" \in DOMAIN op'.body,
                               IF "completed" \in DOMAIN op'.body
                               THEN op'.body["completed"].b ELSE FALSE)]_vars

C8_Witness ==
    /\ IsHttp(op, "PUT")
    /\ op.path = <<IdSeg(2)>>
    /\ op.body = [completed |-> JBool(TRUE), id |-> JNum(9)]
    /\ res.status = 200
    /\ Len(tasks) = 2
    /\ tasks[2].val = [id |-> 2, text |-> TextMax, completed |-> TRUE]
    /\ ~tasks[1].val.completed

(***************************************************************************)
(* C9. clearCompletedTasks on N tasks of which K are completed removes     *)
(* those K and returns K; the N - K others stay, unchanged and in place;   *)
(* a second call right after returns 0 and changes nothing.                *)
(***************************************************************************)
C9_ClearCompleted ==
    [][IsStore(op', "clearCompletedTasks") =>
         LET N == Len(tasks)
             K == Cardinality(CompletedAt(tasks))
         IN /\ res'.kind = "count"
            /\ res'.count = K
            /\ Len(tasks') = N - K
            /\ tasks' = SelectSeq(tasks, LAMBDA e : ~e.val.completed)
            /\ currentId' = currentId
            /\ IsStore(op, "clearCompletedTasks") => (res'.count = 0 /\ tasks' = tasks)]_vars

C9_Witness ==
    /\ IsStore(op, "clearCompletedTasks")
    /\ res.count = 1
    /\ Len(tasks) = 1
    /\ currentId = 3

(***************************************************************************)
(* C10. DELETE /api/tasks/:id answers 204 exactly when deleteTask found    *)
(* the id in the store, and then that task only is removed; the same       *)
(* DELETE again answers 404 and changes nothing.                           *)
(***************************************************************************)
C10_DeleteTwice ==
    [][IsHttp(op', "DELETE") =>
         \A n \in 1..(MaxId + 1) :
            op'.path = <<IdSeg(n)>> =>
                /\ res'.status = IF MapHas(tasks, n) THEN 204 ELSE 404
                /\ res'.status = 204 => res'.kind = "empty"
                /\ tasks' = Without(tasks, n)
                /\ currentId' = currentId
                /\ (IsHttp(op, "DELETE") /\ op.path = op'.path) =>
                      (res'.status = 404 /\ tasks' = tasks)]_vars

C10_Witness ==
    /\ IsHttp(op, "DELETE")
    /\ op.path = <<IdSeg(1)>>
    /\ res.status = 404
    /\ MapKeys(tasks) = {2}

(***************************************************************************)
(* C11. A PUT or DELETE on /api/tasks/:id whose id segment is not an       *)
(* integer (digits followed by a letter or by a decimal point included)    *)
(* is answered 400 and leaves the tasks and the id counter as they were.   *)
(***************************************************************************)
IsIntegerSeg(seg) == seg # <<>> /\ \A i \in 1..Len(seg) : IsDigit(seg[i])

C11_NonIntegerIdRejected ==
    [][(/\ op'.layer = "http"
        /\ op'.name \in {"PUT", "DELETE"}
        /\ ~IsIntegerSeg(op'.path[1])) =>
          /\ res'.status = 400
          /\ tasks' = tasks
          /\ currentId' = currentId]_vars

(***************************************************************************)
(* C13. getTasks returns the stored tasks, each once and no other, in      *)
(* strictly ascending order of id.                                         *)
(***************************************************************************)
C13_ListSortedAndComplete ==
    [][IsStore(op', "getTasks") =>
         /\ res'.kind = "array"
         /\ Len(res'.tasks) = Len(tasks)
         /\ {res'.tasks[i] : i \in 1..Len(res'.tasks)} = {tasks[i].val : i \in 1..Len(tasks)}
         /\ \A i \in 1..(Len(res'.tasks) - 1) : res'.tasks[i].id < res'.tasks[i + 1].id
         /\ tasks' = tasks
         /\ currentId' = currentId]_vars

C13_Witness ==
    /\ IsStore(op, "getTasks")
    /\ Len(res.tasks) = 2
    /\ res.tasks[1].completed
    /\ res.tasks[2].text = TextMax

(***************************************************************************)
(* C14. A POST or PUT answered 400 leaves the tasks and the id counter as  *)
(* they were.  A PUT is checked in the order id, body, existence: a        *)
(* segment with no leading digit is answered "Invalid task ID" even with   *)
(* an ill-typed body, and an ill-typed body on a decimal id is answered    *)
(* 400 whether or not the id is in the store.                              *)
(***************************************************************************)
C14_ValidationBeforeMutation ==
    [][(op'.layer = "http" /\ op'.name \in {"POST", "PUT"}) =>
         /\ res'.status = 400 => (tasks' = tasks /\ currentId' = currentId)
         /\ (op'.name = "PUT" /\ ~IsDigit(Head(op'.path[1]))) =>
               (res'.status = 400 /\ res'.message = "Invalid task ID")
         /\ (op'.name = "PUT" /\ IsIntegerSeg(op'.path[1]) /\ ~WellTyped(op'.body)) =>
               (res'.status = 400 /\ res'.message # "Invalid task ID")
         /\ (op'.name = "POST" /\ ~WellTyped(op'.body)) => res'.status = 400]_vars

C14_Witness ==
    /\ IsHttp(op, "PUT")
    /\ op.path = <<IdSeg(1)>>
    /\ ~WellTyped(op.body)
    /\ res.status = 400
    /\ MapKeys(tasks) = {2}

(***************************************************************************)
(* Vocabulary of the toggle-all interleavings: the response step of the    *)
(* running toggle-all, one iteration of its loop, the deletes and creates  *)
(* other handlers made between two of its updates, and the ids of a list.  *)
(***************************************************************************)
ToggleResponds == toggle.pc = "run" /\ toggle'.pc = "done"

ToggleIterates == toggle.pc = "run" /\ toggle'.done = toggle.done + 1

BetweenUpdates(t, kind) ==
    {e \in t.events : e.kind = kind /\ 1 <= e.done /\ e.done < Len(t.ts)}

IdsOf(ts) == {ts[i].id : i \in 1..Len(ts)}

(***************************************************************************)
(* C12 as stated.  When a delete has interleaved between two updates of a  *)
(* running toggle-all, the response is 200 and the deleted task is not in  *)
(* the returned array and not in the store.                                *)
(***************************************************************************)
C12_DeletedAbsent ==
    [][ToggleResponds =>
         \A e \in BetweenUpdates(toggle, "deleteTask") :
             /\ res'.status = 200
             /\ e.id \notin IdsOf(res'.tasks)
             /\ ~MapHas(tasks', e.id)]_vars

(***************************************************************************)
(* C12 amended.  Each iteration of the loop leaves the set of stored ids   *)
(* as it was and appends the updated task exactly when its id is stored;   *)
(* the response is 200 with the tasks so collected.  A task deleted        *)
(* between two updates is not in the store at the response, and it is in   *)
(* the returned array exactly when its own update had run before the       *)
(* delete.                                                                 *)
(***************************************************************************)
C12_DeleteDuringToggle ==
    [][(ToggleIterates =>
          LET id == toggle.ts[toggle.done + 1].id
          IN /\ MapKeys(tasks') = MapKeys(tasks)
             /\ toggle'.updatedTasks = toggle.updatedTasks \o
                   (IF MapHas(tasks, id)
                    THEN <<[MapGet(tasks, id) EXCEPT
                              !.completed = toggle.newCompletedStatus]>>
                    ELSE <<>>))
       /\ (ToggleResponds =>
             /\ res' = JsonArray(200, toggle.updatedTasks)
             /\ \A e \in BetweenUpdates(toggle, "deleteTask") :
                   /\ ~MapHas(tasks', e.id)
                   /\ e.id \in IdsOf(res'.tasks) <=>
                         \E i \in 1..e.done : toggle.ts[i].id = e.id)]_vars

C12_Witness ==
    /\ toggle.pc = "done"
    /\ op.name = "toggleAll"
    /\ Len(toggle.ts) = 2
    /\ \E e \in BetweenUpdates(toggle, "deleteTask") :
          /\ e.id = toggle.ts[2].id
          /\ ~MapHas(tasks, e.id)
    /\ IdsOf(res.tasks) = {toggle.ts[1].id}

(***************************************************************************)
(* C15. When an update of a task is called while another update of the     *)
(* same task is awaiting its response and its write is still the stored    *)
(* record, one sending only text and the other only completed, the stored  *)
(* task and the second response carry both changes.                        *)
(***************************************************************************)
C15_NoLostUpdate ==
    [][\A p \in pending : \A q \in pending' \ pending :
          (/\ p.op.name = "putTask" /\ q.op.name = "putTask"
           /\ p.op.path = q.op.path
           /\ p.res.status = 200 /\ q.res.status = 200
           /\ MapGet(tasks, p.res.tasks[1].id) = p.res.tasks[1]
           /\ {DOMAIN p.op.body, DOMAIN q.op.body} = {{"text"}, {"completed"}})
          => LET t == IF "text" \in DOMAIN p.op.body THEN p.op.body ELSE q.op.body
                 c == IF "text" \in DOMAIN p.op.body THEN q.op.body ELSE p.op.body
                 stored == MapGet(tasks', q.res.tasks[1].id)
             IN /\ stored.text = t["text"].s
                /\ stored.completed = c["completed"].b
                /\ q.res.tasks[1] = stored]_vars

C15_Witness ==
    \E p, q \in pending :
        /\ p.op.name = "putTask" /\ q.op.name = "putTask"
        /\ p.op.path = <<IdSeg(1)>> /\ q.op.path = <<IdSeg(1)>>
        /\ p.op.body = [text |-> JStr(TextMax)]
        /\ q.op.body = [completed |-> JBool(TRUE)]
        /\ p.res = JsonTask(200, [id |-> 1, text |-> TextMax, completed |-> FALSE])
        /\ MapGet(tasks, 1) = [id |-> 1, text |-> TextMax, completed |-> TRUE]

(***************************************************************************)
(* C20 as stated.  When toggle-all responds, every task in the store is in *)
(* the returned array with completed equal to the toggled value.           *)
(***************************************************************************)
C20_ResponseIsStore ==
    [][ToggleResponds =>
         \A id \in MapKeys(tasks') :
             \E i \in 1..Len(res'.tasks) :
                 /\ res'.tasks[i].id = id
                 /\ res'.tasks[i].completed = toggle.newCompletedStatus]_vars

(***************************************************************************)
(* Vocabulary of the client properties: the mutations a step starts and    *)
(* the ones it settles, and the positions of the fetched list by           *)
(* completion.                                                             *)
(***************************************************************************)
Started == mutations' \ mutations

Settled == mutations \ mutations'

FetchedAt(completed) == {i \in 1..Len(data) : data[i].completed = completed}

Pad(n) == IF n = 0 THEN <<>> ELSE Spaces(n)

NoEdgeSpace(t) == t = <<>> \/ (Head(t).c # " " /\ t[Len(t)].c # " ")

IsTrimOf(t, s) ==
    /\ NoEdgeSpace(t)
    /\ \E a, b \in 0..Length(s) : s = Pad(a) \o t \o Pad(b)

C17_EditMode ==
    [][/\ (editingTaskId' # NoTask /\ editingTaskId' # editingTaskId) =>
             /\ \E i \in 1..Len(data) :
                   data[i].id = editingTaskId' /\ editingText' = data[i].text
             /\ mutations' = mutations
       /\ \A m \in Started :
             (m.method = "PUT" /\ "text" \in DOMAIN m.body) =>
                /\ DOMAIN m.body = {"text"}
                /\ m.body["text"].t = "string"
                /\ m.body["text"].s # TextEmpty
                /\ IsTrimOf(m.body["text"].s, editingText)
                /\ m.path = <<IdSeg(editingTaskId)>>
       /\ (editingTaskId # NoTask /\ editingTaskId' = NoTask /\ Settled = {}) =>
             /\ editingText' = TextEmpty
             /\ UNCHANGED <<mutations, tasks, data>>]_vars

C17_Witness ==
    /\ editingTaskId = 1
    /\ editingText = Spaces(1) \o TextB
    /\ Request("update", "PUT", <<IdSeg(1)>>, [text |-> JStr(TextB)]) \in mutations
    /\ MapGet(tasks, 1).text = TextA

(***************************************************************************)
(* C18. A clear-completed request is started only when the fetched list    *)
(* has a completed task and no clear-completed request is in flight; a     *)
(* toggle-all request is started only when the fetched list is not empty   *)
(* and no toggle-all request is in flight.                                 *)
(***************************************************************************)
C18_FooterButtonsDisabled ==
    [][\A m \in Started :
          /\ (m.method = "DELETE" /\ m.path = <<SegCompleted>>) =>
                /\ FetchedAt(TRUE) # {}
                /\ \A n \in mutations : n.path # <<SegCompleted>>
          /\ (m.method = "PUT" /\ m.path = <<SegToggleAll>>) =>
                /\ data # <<>>
                /\ \A n \in mutations : n.path # <<SegToggleAll>>]_vars

C18_Witness ==
    /\ FetchedAt(TRUE) # {}
    /\ FetchedAt(FALSE) # {}
    /\ \E m \in mutations : m.method = "DELETE" /\ m.path = <<SegCompleted>>
    /\ \E m \in mutations : m.method = "PUT" /\ m.path = <<SegToggleAll>>

(***************************************************************************)
(* C19. A step that changes the filter changes nothing else: no request    *)
(* starts, and the fetched list, the compose text, the edit state and the  *)
(* store stay as they were.  In every state the displayed tasks are the    *)
(* fetched tasks in their order, restricted to the ones not completed for  *)
(* "active" and to the completed ones for "completed"; the counts are      *)
(* those of the whole fetched list, total = completed + remaining.         *)
(***************************************************************************)
C19_SelectFilter ==
    [][/\ filter' # filter =>
             UNCHANGED <<tasks, currentId, newTaskText, editingTaskId, editingText,
                         data, isLoading, fetching, mutations>>
       /\ LET keep == IF filter' = "active" THEN FetchedAt(FALSE)'
                      ELSE IF filter' = "completed" THEN FetchedAt(TRUE)'
                      ELSE DOMAIN data'
              shown == filteredTasks'
          IN /\ Len(shown) = Cardinality(keep)
             /\ {shown[i] : i \in 1..Len(shown)} = {data'[i] : i \in keep}
             /\ \A i, j \in 1..Len(shown) : i < j => shown[i].id < shown[j].id
       /\ totalTasks' = Len(data')
       /\ completedTasks' = Cardinality(FetchedAt(TRUE)')
       /\ remainingTasks' = Cardinality(FetchedAt(FALSE)')
       /\ totalTasks' = completedTasks' + remainingTasks']_vars

C19_Witness ==
    /\ filter = "active"
    /\ FetchedAt(TRUE) # {}
    /\ Len(filteredTasks) = 1
    /\ editingTaskId # NoTask
    /\ newTaskText # TextEmpty
    /\ mutations # {}

(***************************************************************************)
(* C21. When an update request settles with a 2xx answer, whether it came  *)
(* from a checkbox or from the edit input and whichever task it names, the *)
(* editing id becomes none and the edit buffer empty; when it settles with *)
(* any other answer, the editing id and the buffer stay as they were.      *)
(***************************************************************************)
C21_UpdateResetsEdit ==
    [][\A m \in Settled :
          (m.method = "PUT" /\ m.kind = "update") =>
             IF Answer(m).res.status \in {200}
             THEN editingTaskId' = NoTask /\ editingText' = TextEmpty
             ELSE /\ Answer(m).res.status = 404
                  /\ UNCHANGED <<editingTaskId, editingText>>]_vars

C21_Witness ==
    /\ editingTaskId = NoTask
    /\ editingText = TextEmpty
    /\ mutations = {}
    /\ fetching
    /\ \E i \in 1..Len(data) :
          /\ data[i].id = 2
          /\ ~data[i].completed
          /\ MapHas(tasks, 2)
          /\ MapGet(tasks, 2).completed
    /\ MapHas(tasks, 1)

(***************************************************************************)
(* C22. A create request is started only with completed false and with the *)
(* compose text less its leading and trailing spaces, and only when that   *)
(* is not empty; the step that starts it leaves the compose text as it is. *)
(* When a create request settles with 201 the compose text becomes empty;  *)
(* when it settles with any other answer the compose text, the store, the  *)
(* fetched list and the fetch state stay as they were.  The compose text   *)
(* is never emptied by a step that starts a request or settles another     *)
(* kind of request.                                                        *)
(***************************************************************************)
C22_ComposeSubmit ==
    [][/\ \A m \in Started :
             m.method = "POST" =>
                /\ DOMAIN m.body = {"text", "completed"}
                /\ m.body["completed"] = JBool(FALSE)
                /\ m.body["text"].t = "string"
                /\ m.body["text"].s # TextEmpty
                /\ IsTrimOf(m.body["text"].s, newTaskText)
                /\ newTaskText' = newTaskText
       /\ \A m \in Settled :
             m.method = "POST" =>
                IF Answer(m).res.status = 201
                THEN newTaskText' = TextEmpty
                ELSE UNCHANGED <<newTaskText, tasks, currentId, data, fetching>>
       /\ (newTaskText # TextEmpty /\ newTaskText' = TextEmpty /\ mutations' # mutations) =>
             \E m \in Settled : m.method = "POST" /\ Answer(m).res.status = 201]_vars

C22_Witness ==
    /\ newTaskText = Spaces(1) \o TextOver
    /\ Request("create", "POST", <<>>,
               [text |-> JStr(TextOver), completed |-> JBool(FALSE)]) \in mutations
    /\ Answer(CHOOSE m \in mutations : m.kind = "create").res.status = 400
    /\ Len(data) = 1

=============================================================================
